---- MODULE Spec2Model ----
(***************************************************************************)
(* Securities master with point-in-time identifier resolution.             *)
(*                                                                         *)
(* The store is the SQLite database behind DatabaseConnection: the tables  *)
(* securities and security_identifiers with their AUTOINCREMENT counters.  *)
(* Spec      one connection, every public call is one atomic step          *)
(* SpecRace  two connections running resolve_or_create statement by        *)
(*           statement against one database file                           *)
(* SpecConn  the life cycle of one DatabaseConnection instance             *)
(* SpecSchema  initialize_schema run again on an administered database     *)
(* SpecTie   resolve and get_by_identifier among tying association rows    *)
(***************************************************************************)
EXTENDS Integers, FiniteSets, Sequences, Bags, TLC

\* ------------------------------------------------------------------ bounds
MaxDate == 1            \* dates are 0..MaxDate (ISO date text compares as the date does)
MaxSecurities == 3      \* cap on rows ever inserted into securities
MaxIdentifiers == 2     \* cap on rows in security_identifiers

\* --------------------------------------------------------------- constants
NULL == -1              \* SQL NULL / Python None in a date or id position
NullText == "<NULL>"    \* SQL NULL / Python None in a text position

Dates == 0..MaxDate
OptDates == Dates \cup {NULL}
SecurityIds == 1..MaxSecurities

\* (identifier_type, identifier_value) pairs the calls draw their arguments from
DatedKey == <<"ISIN", "US0378331005">>
PlainKey == <<"TICKER_YAHOO", "AAPL">>
Keys == { DatedKey, PlainKey }

NoAttrs == [description |-> NullText, asset_class |-> NullText, currency |-> NullText]
SomeAttrs == [description |-> "maker", asset_class |-> "equity", currency |-> "USD"]

\* (name, description / asset_class / currency) arguments of SecurityRepository.create
CreateArgs == { <<"Apple Inc", NoAttrs>> }

\* (security_name, description / asset_class / currency) arguments of resolve_or_create;
\* "" is the empty name
ResolveOrCreateArgs == { <<"", SomeAttrs>>, <<"Apple Inc", NoAttrs>> }

\* (valid_from, valid_to) pairs that are not an empty interval
Intervals ==
    { p \in OptDates \X OptDates : p[1] = NULL \/ p[2] = NULL \/ p[1] < p[2] }

\* (type, value, valid_from, valid_to) arguments of add_identifier: the ISIN with every
\* validity interval, the ticker without validity bounds
AddIdentifierArgs ==
    { <<DatedKey[1], DatedKey[2], p[1], p[2]>> : p \in Intervals }
        \cup { <<PlainKey[1], PlainKey[2], NULL, NULL>> }

\* is_primary arguments
PrimaryFlags == { FALSE }

\* exception classes a call can end with ("none": it returned)
ErrNone == "none"
ErrDuplicate == "DuplicateSecurityError"
ErrValidation == "ValidationError"
ErrDatabase == "DatabaseError"
ErrValue == "ValueError"
ErrNotFound == "IdentifierNotFoundError"
ErrTransaction == "TransactionError"
ErrConnection == "ConnectionError"
ErrKeyboardInterrupt == "KeyboardInterrupt"
ErrRuntime == "RuntimeError"
ErrSqlite == "sqlite3.Error"

\* the classes an exception of class e is an instance of (its class and the bases it declares)
Bases(e) ==
    CASE e = ErrDuplicate  -> { ErrDuplicate, "DatabaseUtilsError", "Exception" }
      [] e = ErrValidation -> { ErrValidation, "DatabaseUtilsError", "Exception" }
      [] e = ErrDatabase   -> { ErrDatabase, "Exception" }
      [] e = ErrValue      -> { ErrValue, "Exception" }
      [] e = ErrNotFound   -> { ErrNotFound, "DatabaseUtilsError", "Exception" }
      [] e = ErrTransaction -> { ErrTransaction, ErrDatabase, "Exception" }
      [] e = ErrConnection -> { ErrConnection, ErrDatabase, "Exception" }
      [] e = ErrRuntime    -> { ErrRuntime, "Exception" }
      [] e = ErrSqlite     -> { ErrSqlite, "Exception" }
      [] e = ErrKeyboardInterrupt -> { ErrKeyboardInterrupt, "BaseException" }
      [] OTHER             -> {}

IsInstance(e, cls) == cls \in Bases(e)

Callers == {1, 2}

VARIABLES
    securities,     \* committed rows of table securities
    identifiers,    \* committed rows of table security_identifiers (a bag: equal rows can repeat)
    seqSec,         \* sqlite_sequence of securities (last AUTOINCREMENT id)
    today,          \* date.today()
    last,           \* the call that has just returned on the single connection, and its outcome
    pc,             \* SpecRace: each caller's position inside resolve_or_create
    loc,            \* SpecRace: each caller's arguments and local variables
    pending,        \* SpecRace: each connection's uncommitted inserts
    writeLock,      \* SpecRace: connection holding the database write lock (0: free)
    value,          \* SpecDetect: the string handed to detect_identifier_type
    detected,       \* SpecDetect: what detect_identifier_type returned for value
    sources,        \* SpecOverlay: rows of table data_sources
    prices,         \* SpecOverlay: rows of table price_data
    factors,        \* SpecOverlay: rows of table factor_data
    txn,            \* SpecTxn: the block guarded by DatabaseConnection.transaction()
    conn,           \* the DatabaseConnection instance and the outcome of its last call
    db              \* the schema objects and seed rows of the database at conn.path

store == <<securities, identifiers, seqSec>>
connVars == <<conn, db>>
sideVars == <<value, detected, sources, prices, factors, txn, connVars>>
raceVars == <<pc, loc, pending, writeLock, sideVars>>
vars == <<securities, identifiers, seqSec, today, last, pc, loc, pending, writeLock,
          value, detected, sources, prices, factors, txn, conn, db>>

\* ------------------------------------------------------------ row builders
SecurityRow(id, name, attrs) ==
    [security_id |-> id, name |-> name, description |-> attrs.description,
     asset_class |-> attrs.asset_class, currency |-> attrs.currency]

\* IdentifierRow with identifier_type and identifier_value taken in the resolver's
\* (value, type) argument order
IdentifierRow_Swapped(sid, t, v, prim, vf, vt) ==
    [security_id |-> sid, identifier_type |-> v, identifier_value |-> t,
     is_primary |-> prim, valid_from |-> vf, valid_to |-> vt]

\* a security_identifiers row without its surrogate id and created_at
IdentifierRow(sid, t, v, prim, vf, vt) ==
    [security_id |-> sid, identifier_type |-> t, identifier_value |-> v,
     is_primary |-> prim, valid_from |-> vf, valid_to |-> vt]

\* INSERT INTO security_identifiers
InsertIdentifier(ids, row) == ids (+) SetToBag({row})

\* --------------------------------------------------- IdentifierResolver.resolve
\* ResolveWhere with a closed interval: valid_to >= as_of
ResolveWhere_Closed(r, t, v, asof) ==
    /\ r.identifier_type = t
    /\ r.identifier_value = v
    /\ (r.valid_from = NULL \/ r.valid_from <= asof)
    /\ (r.valid_to = NULL \/ r.valid_to >= asof)

\* WHERE clause of resolve's SELECT
ResolveWhere(r, t, v, asof) ==
    /\ r.identifier_type = t
    /\ r.identifier_value = v
    /\ (r.valid_from = NULL \/ r.valid_from <= asof)
    /\ (r.valid_to = NULL \/ r.valid_to > asof)

\* OrderedBefore for ORDER BY valid_from ASC NULLS LAST
OrderedBefore_Ascending(r, q) ==
    \/ q.valid_from = NULL
    \/ (r.valid_from # NULL /\ r.valid_from <= q.valid_from)

\* ORDER BY valid_from DESC NULLS LAST: r may stand before q
OrderedBefore(r, q) ==
    \/ q.valid_from = NULL
    \/ (r.valid_from # NULL /\ r.valid_from >= q.valid_from)

\* rows that LIMIT 1 can deliver (more than one only when the sort key ties)
ResolveFirstRows(ids, t, v, asof) ==
    LET cand == { r \in BagToSet(ids) : ResolveWhere(r, t, v, asof) }
    IN  { r \in cand : \A q \in cand : OrderedBefore(r, q) }

\* what resolve can return: a security id, or NULL for None
ResolveResults(ids, t, v, asof) ==
    LET first == ResolveFirstRows(ids, t, v, asof)
    IN  IF first = {} THEN {NULL} ELSE { r.security_id : r \in first }

\* ------------------------------------------- SecurityRepository.add_identifier
\* DupCheckRows with WHERE valid_from = ? alone
DupCheckRows_SameOnly(ids, t, v, vf) ==
    { r \in BagToSet(ids) : /\ r.identifier_type = t
                            /\ r.identifier_value = v
                            /\ vf # NULL
                            /\ r.valid_from = vf }

\* rows matched by the duplicate check's SELECT (valid_from = ? is never true for a NULL parameter)
DupCheckRows(ids, t, v, vf) ==
    { r \in BagToSet(ids) : /\ r.identifier_type = t
                            /\ r.identifier_value = v
                            /\ (r.valid_from = NULL \/ (vf # NULL /\ r.valid_from = vf)) }

\* what fetchone can deliver for the duplicate check: a row's security_id, or NULL
DupCheckFetch(ids, t, v, vf) ==
    LET m == DupCheckRows(ids, t, v, vf)
    IN  IF m = {} THEN {NULL} ELSE { r.security_id : r \in m }

\* existing is not None and existing["security_id"] != security_id
DupCheckFails(existing, sid) ==
    existing # NULL /\ existing # sid

\* UNIQUE (identifier_type, identifier_value, valid_from): NULLs are distinct from each other
UniqueViolation(ids, t, v, vf) ==
    /\ vf # NULL
    /\ \E r \in BagToSet(ids) : /\ r.identifier_type = t
                                /\ r.identifier_value = v
                                /\ r.valid_from = vf

\* FOREIGN KEY (security_id) REFERENCES securities(security_id)
ForeignKeyViolation(secs, sid) ==
    \A s \in secs : s.security_id # sid

\* the INSERT of add_identifier is refused by a constraint (sqlite3.IntegrityError)
InsertRefused(secs, ids, sid, t, v, vf) ==
    UniqueViolation(ids, t, v, vf) \/ ForeignKeyViolation(secs, sid)

\* outcomes of add_identifier on (secs, ids): the exception class and the table afterwards
AddIdentifierOutcomes(secs, ids, sid, t, v, prim, vf, vt) ==
    { [err |-> IF DupCheckFails(existing, sid) THEN ErrDuplicate
               ELSE IF InsertRefused(secs, ids, sid, t, v, vf) THEN ErrDatabase
               ELSE ErrNone,
       identifiers |->
               IF DupCheckFails(existing, sid) \/ InsertRefused(secs, ids, sid, t, v, vf)
               THEN ids
               ELSE InsertIdentifier(ids, IdentifierRow(sid, t, v, prim, vf, vt))]
      : existing \in DupCheckFetch(ids, t, v, vf) }

\* ------------------------------------------------------------------- calls
\* the attributes an exception carries when it has none of its own
NoAttributes == [identifier_type |-> "", identifier_value |-> ""]

\* no call outcome is waiting to be read
NoCall ==
    [op |-> "none", t |-> "", v |-> "", sid |-> NULL, vf |-> NULL, asof |-> NULL,
     name |-> "", result |-> NULL, err |-> ErrNone, exc |-> NoAttributes, created |-> 0,
     prevOp |-> "none", prevResult |-> NULL, prevErr |-> ErrNone, prevCreated |-> 0]

\* The caller reads the outcome of a call before it makes an unrelated one; a
\* resolve_or_create may be followed at once by resolve or by another
\* resolve_or_create of the same identifier.
CanCall(op, t, v) ==
    \/ last.op = "none"
    \/ /\ last.op = "resolve_or_create"
       /\ op \in {"resolve", "resolve_or_create"}
       /\ last.t = t
       /\ last.v = v

\* the record of a call of op made now: it remembers the call it follows at once
CallRecord(op) ==
    [NoCall EXCEPT !.op = op, !.prevOp = last.op, !.prevResult = last.result,
                   !.prevErr = last.err, !.prevCreated = last.created]

\* a caller's arguments (t, v, name, attrs) and locals (the path taken, security_id,
\* the value returned, the exception raised) before its call
NoLocals ==
    [t |-> "", v |-> "", name |-> "", attrs |-> NoAttrs, branch |-> "",
     id |-> NULL, result |-> NULL, err |-> ErrNone]

\* detect_identifier_type has not been called on value
NotCalled == "(not called)"

\* priority column of DEFAULT_DATA_SOURCES, by source_id in insertion order
\* (YFINANCE, EXCEL_IMPORT, MANUAL_ENTRY, DERIVED_CALC)
DefaultPriorities == <<10, 50, 100, 200>>

\* source_code column of DEFAULT_DATA_SOURCES, in insertion order
DefaultSourceCodes == <<"YFINANCE", "EXCEL_IMPORT", "MANUAL_ENTRY", "DERIVED_CALC">>

\* type_code column of DEFAULT_IDENTIFIER_TYPES
DefaultIdentifierTypes ==
    { "ISIN", "CUSIP", "SEDOL", "TICKER_BBG", "TICKER_YAHOO", "JP_CODE", "FIGI" }

\* data_sources after initialize_schema: the defaults, all with is_active DEFAULT 1
DefaultDataSources ==
    { [source_id |-> i, source_code |-> DefaultSourceCodes[i],
       priority |-> DefaultPriorities[i], is_active |-> 1]
      : i \in DOMAIN DefaultPriorities }

\* db_path of an in-memory database
MemoryPath == ":memory:"

\* DatabaseConnection(path, auto_initialize=auto) after __init__: h is _conn (0 for
\* None, else the number of the sqlite3.Connection object), handles counts the
\* sqlite3.Connection objects made so far; op and err are the call made last on the
\* instance and the exception it raised
NewConnection(path, auto) ==
    [path |-> path, auto |-> auto, h |-> 0, initialized |-> FALSE, handles |-> 0,
     op |-> "__init__", err |-> ErrNone]

\* a database without any object: schema is "none", "tables" (the tables, without
\* indexes, views and seed rows), "full", or "garbage" for a file that is not a
\* database; incompatible says that a table of another
\* layout stands under one of the schema's names; types are the type_code values in
\* identifier_types, seqSrc is sqlite_sequence of data_sources
EmptyDatabase ==
    [schema |-> "none", incompatible |-> FALSE, types |-> {}, seqSrc |-> 0,
     plan |-> "index"]

\* a database on which initialize_schema has run once
InitializedDatabase ==
    [EmptyDatabase EXCEPT !.schema = "full", !.types = DefaultIdentifierTypes,
                          !.seqSrc = Len(DefaultSourceCodes)]

\* a connected DatabaseConnection(":memory:") whose schema has been initialized
OpenConnection ==
    [NewConnection(MemoryPath, TRUE) EXCEPT !.h = 1, !.handles = 1,
                                            !.initialized = TRUE, !.op = "connect"]

\* no block guarded by transaction() is open and none has ended
NoTxn ==
    [pos |-> "out", wrote |-> {}, repo |-> {}, raised |-> ErrNone, err |-> ErrNone,
     cause |-> ErrNone]

\* every table but data_sources is empty and no call has been made
InitTables ==
    /\ securities = {}
    /\ identifiers = EmptyBag
    /\ seqSec = 0
    /\ today = 0
    /\ last = NoCall
    /\ pc = [c \in Callers |-> "idle"]
    /\ loc = [c \in Callers |-> NoLocals]
    /\ pending = [c \in Callers |-> {}]
    /\ writeLock = 0
    /\ value = <<>>
    /\ detected = NotCalled
    /\ prices = {}
    /\ factors = {}
    /\ txn = NoTxn

\* a connected, initialized in-memory database
Init ==
    /\ InitTables
    /\ sources = DefaultDataSources
    /\ conn = OpenConnection
    /\ db = InitializedDatabase

\* the calendar day advances between calls
Tick ==
    /\ last.op = "none"
    /\ today < MaxDate
    /\ today' = today + 1
    /\ UNCHANGED <<store, last, raceVars>>

\* the caller has read the outcome of the last call
Return ==
    /\ last.op # "none"
    /\ last' = NoCall
    /\ UNCHANGED <<store, today, raceVars>>

\* LastRowId that hands out the highest id once more
LastRowId_Recycled(seq) == IF seq = 0 THEN 1 ELSE seq

\* cursor.lastrowid of an INSERT into an AUTOINCREMENT table whose sequence is seq
LastRowId(seq) == seq + 1

\* SecurityRepository.create(name, description, asset_class, currency)
Create(name, attrs) ==
    /\ CanCall("create", "", "")
    /\ seqSec < MaxSecurities
    /\ securities' = securities \cup { SecurityRow(LastRowId(seqSec), name, attrs) }
    /\ seqSec' = LastRowId(seqSec)
    /\ last' = [CallRecord("create") EXCEPT !.name = name,
                              !.result = LastRowId(seqSec), !.created = 1]
    /\ UNCHANGED <<identifiers, today, raceVars>>

\* SecurityRepository.add_identifier(security_id, type, value, is_primary, valid_from, valid_to)
AddIdentifier(sid, t, v, prim, vf, vt) ==
    /\ CanCall("add_identifier", t, v)
    /\ \E o \in AddIdentifierOutcomes(securities, identifiers, sid, t, v, prim, vf, vt) :
        /\ BagCardinality(o.identifiers) <= MaxIdentifiers
        /\ identifiers' = o.identifiers
        /\ last' = [CallRecord("add_identifier") EXCEPT !.t = t, !.v = v,
                                  !.sid = sid, !.vf = vf, !.err = o.err]
        /\ UNCHANGED <<securities, seqSec, today, raceVars>>

\* as_of of resolve: date.today() when the argument is None
AsOf(asof) == IF asof = NULL THEN today ELSE asof

\* IdentifierResolver.resolve(value, type, as_of); as_of = NULL is the default
Resolve(t, v, asof) ==
    /\ CanCall("resolve", t, v)
    /\ \E r \in ResolveResults(identifiers, t, v, AsOf(asof)) :
        /\ last' = [CallRecord("resolve") EXCEPT !.t = t, !.v = v,
                                  !.asof = asof, !.result = r]
        /\ UNCHANGED <<store, today, raceVars>>

\* RocBranch without the check of security_name
RocBranch_NoValidation(existing, name) ==
    IF existing # NULL THEN "existing" ELSE "create"

\* RocBranch with the check of security_name made before the lookup
RocBranch_ValidateFirst(existing, name) ==
    IF name = "" THEN "invalid"
    ELSE IF existing # NULL THEN "existing"
    ELSE "create"

\* the path resolve_or_create takes: return the id found, reject an empty name, or create
RocBranch(existing, name) ==
    IF existing # NULL THEN "existing"
    ELSE IF name = "" THEN "invalid"
    ELSE "create"

\* IdentifierResolver.resolve_or_create(value, type, security_name, description, asset_class, currency)
ResolveOrCreate(t, v, name, attrs) ==
    /\ CanCall("resolve_or_create", t, v)
    /\ \E existing \in ResolveResults(identifiers, t, v, AsOf(NULL)) :
        LET call == [CallRecord("resolve_or_create") EXCEPT !.t = t, !.v = v, !.name = name]
            branch == RocBranch(existing, name)
        IN
        CASE branch = "existing" ->
             /\ last' = [call EXCEPT !.result = existing]
             /\ UNCHANGED <<store, today, raceVars>>
          [] branch = "invalid" ->
             /\ last' = [call EXCEPT !.err = ErrValue]
             /\ UNCHANGED <<store, today, raceVars>>
          [] branch = "create" ->
             /\ seqSec < MaxSecurities
             /\ LET newId == LastRowId(seqSec)
                    secs == securities \cup { SecurityRow(newId, name, attrs) }
                IN  \E o \in AddIdentifierOutcomes(secs, identifiers,
                                                   newId, t, v, FALSE, NULL, NULL) :
                        /\ BagCardinality(o.identifiers) <= MaxIdentifiers
                        /\ securities' = secs
                        /\ seqSec' = newId
                        /\ identifiers' = o.identifiers
                        /\ last' = [call EXCEPT !.err = o.err, !.created = 1,
                                       !.result = IF o.err = ErrNone THEN newId ELSE NULL]
             /\ UNCHANGED <<today, raceVars>>

Next ==
    \/ Tick
    \/ Return
    \/ \E a \in CreateArgs : Create(a[1], a[2])
    \/ \E sid \in SecurityIds, a \in AddIdentifierArgs, prim \in PrimaryFlags :
           AddIdentifier(sid, a[1], a[2], prim, a[3], a[4])
    \/ \E k \in Keys, asof \in OptDates : Resolve(k[1], k[2], asof)
    \/ \E k \in Keys, a \in ResolveOrCreateArgs : ResolveOrCreate(k[1], k[2], a[1], a[2])

Spec == Init /\ [][Next]_vars


\* ------------------------------------------------- two connections, one database
\* Each caller runs resolve_or_create on a connection of its own. A connection's
\* INSERT takes the database write lock and stays invisible to the other connection
\* until its commit; a writer that finds the lock taken waits for it.
seqVars == <<today, last, sideVars>>

\* a caller enters resolve_or_create(value, type, security_name, ...)
RaceCall(c, t, v, name, attrs) ==
    /\ pc[c] = "idle"
    /\ pc' = [pc EXCEPT ![c] = "resolve"]
    /\ loc' = [loc EXCEPT ![c] = [NoLocals EXCEPT !.t = t, !.v = v, !.name = name,
                                                  !.attrs = attrs]]
    /\ UNCHANGED <<store, pending, writeLock, seqVars>>

\* existing_id = self.resolve(...), then the choice of path
RaceResolve(c) ==
    /\ pc[c] = "resolve"
    /\ \E existing \in ResolveResults(identifiers, loc[c].t, loc[c].v, AsOf(NULL)) :
        LET branch == RocBranch(existing, loc[c].name)
        IN  /\ loc' = [loc EXCEPT ![c].branch = branch,
                                  ![c].result = existing,
                                  ![c].err = IF branch = "invalid" THEN ErrValue ELSE ErrNone]
            /\ pc' = [pc EXCEPT ![c] = IF branch = "create" THEN "insert_security" ELSE "done"]
    /\ UNCHANGED <<store, pending, writeLock, seqVars>>

\* create: the INSERT INTO securities
RaceInsertSecurity(c) ==
    /\ pc[c] = "insert_security"
    /\ writeLock = 0
    /\ seqSec < MaxSecurities
    /\ writeLock' = c
    /\ loc' = [loc EXCEPT ![c].id = LastRowId(seqSec)]
    /\ pending' = [pending EXCEPT ![c] =
                      { SecurityRow(LastRowId(seqSec), loc[c].name, loc[c].attrs) }]
    /\ pc' = [pc EXCEPT ![c] = "commit_security"]
    /\ UNCHANGED <<store, seqVars>>

\* create: self._db.commit()
RaceCommitSecurity(c) ==
    /\ pc[c] = "commit_security"
    /\ securities' = securities \cup pending[c]
    /\ seqSec' = loc[c].id
    /\ pending' = [pending EXCEPT ![c] = {}]
    /\ writeLock' = 0
    /\ pc' = [pc EXCEPT ![c] = "check_duplicate"]
    /\ UNCHANGED <<identifiers, loc, seqVars>>

\* add_identifier: the duplicate check
RaceCheckDuplicate(c) ==
    /\ pc[c] = "check_duplicate"
    /\ \E existing \in DupCheckFetch(identifiers, loc[c].t, loc[c].v, NULL) :
        IF DupCheckFails(existing, loc[c].id)
        THEN /\ loc' = [loc EXCEPT ![c].err = ErrDuplicate]
             /\ pc' = [pc EXCEPT ![c] = "done"]
        ELSE /\ pc' = [pc EXCEPT ![c] = "insert_identifier"]
             /\ UNCHANGED loc
    /\ UNCHANGED <<store, pending, writeLock, seqVars>>

\* add_identifier: the INSERT INTO security_identifiers
RaceInsertIdentifier(c) ==
    /\ pc[c] = "insert_identifier"
    /\ writeLock = 0
    /\ BagCardinality(identifiers) < MaxIdentifiers
    /\ IF InsertRefused(securities, identifiers, loc[c].id, loc[c].t, loc[c].v, NULL)
       THEN /\ loc' = [loc EXCEPT ![c].err = ErrDatabase]
            /\ pc' = [pc EXCEPT ![c] = "done"]
            /\ UNCHANGED <<pending, writeLock>>
       ELSE /\ writeLock' = c
            /\ pending' = [pending EXCEPT ![c] =
                  { IdentifierRow(loc[c].id, loc[c].t, loc[c].v, FALSE, NULL, NULL) }]
            /\ pc' = [pc EXCEPT ![c] = "commit_identifier"]
            /\ UNCHANGED loc
    /\ UNCHANGED <<store, seqVars>>

\* add_identifier: self._db.commit(), then resolve_or_create returns security_id
RaceCommitIdentifier(c) ==
    /\ pc[c] = "commit_identifier"
    /\ \E row \in pending[c] : identifiers' = InsertIdentifier(identifiers, row)
    /\ pending' = [pending EXCEPT ![c] = {}]
    /\ writeLock' = 0
    /\ loc' = [loc EXCEPT ![c].result = loc[c].id]
    /\ pc' = [pc EXCEPT ![c] = "done"]
    /\ UNCHANGED <<securities, seqSec, seqVars>>

NextRace ==
    \/ \E c \in Callers, k \in Keys, a \in ResolveOrCreateArgs :
           RaceCall(c, k[1], k[2], a[1], a[2])
    \/ \E c \in Callers : RaceResolve(c)
    \/ \E c \in Callers : RaceInsertSecurity(c)
    \/ \E c \in Callers : RaceCommitSecurity(c)
    \/ \E c \in Callers : RaceCheckDuplicate(c)
    \/ \E c \in Callers : RaceInsertIdentifier(c)
    \/ \E c \in Callers : RaceCommitIdentifier(c)

SpecRace == Init /\ [][NextRace]_vars


\* ------------------------------------------------ detect_identifier_type
\* the state every specification but the one at hand leaves alone
resolverVars == <<store, today, last, pc, loc, pending, writeLock, connVars>>

\* A string is a sequence of one-character strings.
Upper == { "A", "B", "C", "D", "E", "F", "G", "H", "I", "J", "K", "L", "M",
           "N", "O", "P", "Q", "R", "S", "T", "U", "V", "W", "X", "Y", "Z" }
Digit == { "0", "1", "2", "3", "4", "5", "6", "7", "8", "9" }
AlNum == Upper \cup Digit
Newline == "\n"

\* n copies of x in a row
Repeat(x, n) == [i \in 1..n |-> x]

\* the compiled patterns without their ^ and $: one character class per position
IDENTIFIER_PATTERNS(t) ==
    CASE t = "FIGI"    -> <<{"B"}, {"B"}, {"G"}>> \o Repeat(AlNum, 9)
      [] t = "ISIN"    -> Repeat(Upper, 2) \o Repeat(AlNum, 9) \o <<Digit>>
      [] t = "CUSIP"   -> Repeat(AlNum, 9)
      [] t = "SEDOL"   -> Repeat(AlNum, 7)
      [] t = "JP_CODE" -> Repeat(Digit, 4)

DETECTION_ORDER == << "FIGI", "ISIN", "CUSIP", "SEDOL", "JP_CODE" >>

\* TICKER_TYPES with the Bloomberg ticker tried first
TICKER_TYPES_BloombergFirst == << "TICKER_BBG", "TICKER_YAHOO" >>

\* the ticker types tried when detection or the detected type gives nothing
TICKER_TYPES == << "TICKER_YAHOO", "TICKER_BBG" >>

\* pattern.match(s) for a pattern ^p$: p from the first character on, and $ holds at
\* the end of s and also just before a newline that is the last character of s
PatternMatch(p, s) ==
    LET body == IF Len(s) = Len(p) + 1 /\ s[Len(s)] = Newline
                THEN SubSeq(s, 1, Len(p)) ELSE s
    IN  /\ Len(body) = Len(p)
        /\ \A i \in 1..Len(p) : body[i] \in p[i]

\* detect_identifier_type(identifier_value); NullText is None
DetectIdentifierType(s) ==
    IF s = <<>> THEN NullText
    ELSE LET hits == { i \in DOMAIN DETECTION_ORDER :
                          PatternMatch(IDENTIFIER_PATTERNS(DETECTION_ORDER[i]), s) }
         IN  IF hits = {} THEN NullText
             ELSE DETECTION_ORDER[CHOOSE i \in hits : \A j \in hits : i <= j]

\* The strings handed to detection: a prefix, a run of one character, a suffix.
MaxFill == 12
DetectPrefixes == { <<>>, <<"B", "B", "G">>, <<"U", "S">>, <<"7">> }
DetectFills == { "A", "0", "a", ".", "_" }
DetectSuffixes == { <<>>, <<Newline>>, <<"5">>, <<"X">> }
DetectInputs ==
    { pre \o Repeat(c, n) \o suf :
        pre \in DetectPrefixes, c \in DetectFills, n \in 0..MaxFill, suf \in DetectSuffixes }

\* the caller has a string s to classify
DetectInput(s) ==
    /\ value' = s
    /\ detected' = NotCalled
    /\ UNCHANGED <<resolverVars, sources, prices, factors, txn>>

\* detect_identifier_type(value)
Detect ==
    /\ detected = NotCalled
    /\ detected' = DetectIdentifierType(value)
    /\ UNCHANGED <<resolverVars, value, sources, prices, factors, txn>>

NextDetect ==
    \/ \E s \in DetectInputs : DetectInput(s)
    \/ Detect

SpecDetect == Init /\ [][NextDetect]_vars


\* ------------------------------------- resolve_auto and resolve_or_raise
\* the characters of the identifier values the lookups are called with
Chars(v) ==
    CASE v = "US0378331005" ->
             <<"U", "S", "0", "3", "7", "8", "3", "3", "1", "0", "0", "5">>
      [] v = "AAPL" -> <<"A", "A", "P", "L">>

\* the values handed to resolve_auto: one that detection classifies, one it does not
LookupValues == { DatedKey[2], PlainKey[2] }

\* securities that identifiers are registered for before the lookups
LookupSecurities == { 1, 2 }

\* (type, value, valid_from, valid_to) of the associations registered before the
\* lookups: each value under its detected type and under both ticker types, valid
\* always or until date 1
LookupArgs ==
    { <<t, v, NULL, vt>> :
        t \in { "ISIN", "TICKER_YAHOO", "TICKER_BBG" }, v \in LookupValues, vt \in { NULL, 1 } }

\* the types resolve_auto tries for value v, in the order it tries them
AutoTypes(v) ==
    LET detected_type == DetectIdentifierType(Chars(v))
    IN  (IF detected_type # NullText THEN <<detected_type>> ELSE <<>>) \o TICKER_TYPES

\* what resolve_auto can return when it tries types in turn: the first result that is
\* not None, None (NULL) when every resolve returns None
RECURSIVE FirstResolved(_, _, _, _)
FirstResolved(ids, types, v, asof) ==
    IF types = <<>> THEN { NULL }
    ELSE LET results == ResolveResults(ids, Head(types), v, asof)
         IN  (results \ { NULL })
                 \cup (IF NULL \in results
                       THEN FirstResolved(ids, Tail(types), v, asof) ELSE {})

\* IdentifierResolver.resolve_auto(value, as_of)
ResolveAuto(v, asof) ==
    /\ CanCall("resolve_auto", "", v)
    /\ \E r \in FirstResolved(identifiers, AutoTypes(v), v, AsOf(asof)) :
        /\ last' = [CallRecord("resolve_auto") EXCEPT !.v = v, !.asof = asof, !.result = r]
        /\ UNCHANGED <<store, today, raceVars>>

\* IdentifierNotFoundError with its arguments in the order of the value and type
\* parameters of resolve_or_raise
IdentifierNotFoundError_ValueFirst(t, v) ==
    [identifier_type |-> v, identifier_value |-> t]

\* IdentifierNotFoundError(identifier_type, identifier_value): the attributes it carries
IdentifierNotFoundError(t, v) ==
    [identifier_type |-> t, identifier_value |-> v]

\* IdentifierResolver.resolve_or_raise(value, type, as_of)
ResolveOrRaise(t, v, asof) ==
    /\ CanCall("resolve_or_raise", t, v)
    /\ \E r \in ResolveResults(identifiers, t, v, AsOf(asof)) :
        /\ last' = IF r = NULL
                   THEN [CallRecord("resolve_or_raise") EXCEPT !.t = t, !.v = v,
                             !.asof = asof, !.err = ErrNotFound,
                             !.exc = IdentifierNotFoundError(t, v)]
                   ELSE [CallRecord("resolve_or_raise") EXCEPT !.t = t, !.v = v,
                             !.asof = asof, !.result = r]
        /\ UNCHANGED <<store, today, raceVars>>

NextLookup ==
    \/ Tick
    \/ Return
    \/ \E a \in CreateArgs : LastRowId(seqSec) \in LookupSecurities /\ Create(a[1], a[2])
    \/ \E sid \in LookupSecurities, a \in LookupArgs :
           AddIdentifier(sid, a[1], a[2], FALSE, a[3], a[4])
    \/ \E v \in LookupValues, asof \in OptDates : ResolveAuto(v, asof)
    \/ \E k \in Keys, asof \in OptDates : ResolveOrRaise(k[1], k[2], asof)

SpecLookup == Init /\ [][NextLookup]_vars


\* ------------------------------------------- best_prices and latest_factors
\* cap on rows in price_data and factor_data together
MaxFacts == 3

OverlaySecurities == { 1, 2 }
OverlayDates == { 0, 1 }
\* the sources that report facts and that administrators switch on and off
OverlaySources == { 1, 2, 3 }
\* factor_definitions holds one factor
FactorIds == { 1 }
\* (source_id, priority) of the priority updates administrators make
PriorityUpdates == { <<3, 50>>, <<3, 100>> }

\* no row: the scalar subquery of a view is NULL
NoFact == [source_id |-> NULL]

\* a price_data row without its surrogate id (UNIQUE (security_id, source_id, price_date))
PriceRow(sec, src, d, close) ==
    [security_id |-> sec, source_id |-> src, price_date |-> d, close |-> close]

\* a factor_data row without its surrogate id
\* (UNIQUE (security_id, factor_id, source_id, as_of_date))
FactorRow(sec, f, src, d, val) ==
    [security_id |-> sec, factor_id |-> f, source_id |-> src, as_of_date |-> d,
     value_numeric |-> val]

\* the columns the views correlate their subquery on
BestPricesKey(p) == <<p.security_id, p.price_date>>
LatestFactorsKey(fd) == <<fd.security_id, fd.factor_id, fd.as_of_date>>

\* the correlation columns of the view a fact row belongs to: price_data rows feed
\* best_prices, factor_data rows feed latest_factors
KeyOf(q) == IF "price_date" \in DOMAIN q THEN BestPricesKey(q) ELSE LatestFactorsKey(q)

\* JOIN data_sources ds ON source_id: the source row of a fact
SourceOf(src) == CHOOSE ds \in sources : ds.source_id = src

\* IsActive that takes every source for active
IsActive_Any(src) == SourceOf(src).is_active \in { 0, 1 }

\* ds.is_active = 1
IsActive(src) == SourceOf(src).is_active = 1

\* SubqueryResults with ORDER BY priority DESC
SubqueryResults_Descending(facts, k) ==
    LET active == { q \in facts : KeyOf(q) = k /\ IsActive(q.source_id) }
        first == { q \in active : \A q2 \in active :
                      SourceOf(q.source_id).priority >= SourceOf(q2.source_id).priority }
    IN  IF first = {} THEN { NoFact } ELSE first

\* what the scalar subquery of a view can deliver for key k: a row of an active source
\* that stands first under ORDER BY priority ASC (LIMIT 1 takes any one of those that
\* tie), or NoFact
SubqueryResults(facts, k) ==
    LET active == { q \in facts : KeyOf(q) = k /\ IsActive(q.source_id) }
        first == { q \in active : \A q2 \in active :
                      SourceOf(q.source_id).priority <= SourceOf(q2.source_id).priority }
    IN  IF first = {} THEN { NoFact } ELSE first

\* the rows of a view for key k when its subquery delivers w:
\* WHERE ds.is_active = 1 AND id = (subquery)
ViewRows(facts, k, w) ==
    { p \in facts : KeyOf(p) = k /\ IsActive(p.source_id) /\ p = w }

\* INSERT INTO price_data through DatabaseConnection.execute, then commit
InsertPrice(sec, src, d, close) ==
    /\ Cardinality(prices) + Cardinality(factors) < MaxFacts
    /\ ~ForeignKeyViolation(securities, sec)
    /\ \E ds \in sources : ds.source_id = src
    /\ \A p \in prices : ~(p.security_id = sec /\ p.source_id = src /\ p.price_date = d)
    /\ prices' = prices \cup { PriceRow(sec, src, d, close) }
    /\ UNCHANGED <<resolverVars, value, detected, sources, factors, txn>>

\* INSERT INTO factor_data through DatabaseConnection.execute, then commit
InsertFactor(sec, f, src, d, val) ==
    /\ Cardinality(prices) + Cardinality(factors) < MaxFacts
    /\ ~ForeignKeyViolation(securities, sec)
    /\ \E ds \in sources : ds.source_id = src
    /\ \A fd \in factors : ~(/\ fd.security_id = sec /\ fd.factor_id = f
                             /\ fd.source_id = src /\ fd.as_of_date = d)
    /\ factors' = factors \cup { FactorRow(sec, f, src, d, val) }
    /\ UNCHANGED <<resolverVars, value, detected, sources, prices, txn>>

\* UPDATE data_sources SET is_active = flag WHERE source_id = src
SetActive(src, flag) ==
    /\ SourceOf(src).is_active # flag
    /\ sources' = { IF ds.source_id = src THEN [ds EXCEPT !.is_active = flag] ELSE ds
                    : ds \in sources }
    /\ UNCHANGED <<resolverVars, value, detected, prices, factors, txn>>

\* UPDATE data_sources SET priority = p WHERE source_id = src
SetPriority(src, p) ==
    /\ SourceOf(src).priority # p
    /\ sources' = { IF ds.source_id = src THEN [ds EXCEPT !.priority = p] ELSE ds
                    : ds \in sources }
    /\ UNCHANGED <<resolverVars, value, detected, prices, factors, txn>>

NextOverlay ==
    \/ Return
    \/ \E a \in CreateArgs : LastRowId(seqSec) \in OverlaySecurities /\ Create(a[1], a[2])
    \/ \E sec \in OverlaySecurities, src \in OverlaySources, d \in OverlayDates :
           InsertPrice(sec, src, d, 100 + src)
    \/ \E f \in FactorIds, src \in OverlaySources, d \in OverlayDates :
           InsertFactor(1, f, src, d, 100 + src)
    \/ \E src \in OverlaySources, flag \in { 0, 1 } : SetActive(src, flag)
    \/ \E u \in PriorityUpdates : SetPriority(u[1], u[2])

SpecOverlay == Init /\ [][NextOverlay]_vars


\* ------------------------------------------ DatabaseConnection.transaction
\* One connection (caller 1). pending[1] holds the rows its open SQLite transaction has
\* inserted and not committed; securities and seqSec are the committed state.
\* txn.pos is "in" inside the guarded block, "committed" or "failed" after it;
\* txn.wrote are the securities rows written in the block, txn.repo the rows written
\* in it by SecurityRepository calls, txn.raised the exception the block
\* raised, txn.err and txn.cause what the caller of transaction() received.
txnFrame == <<identifiers, today, last, pc, loc, writeLock,
              value, detected, sources, prices, factors, connVars>>

\* txnFrame without the security_identifiers table
txnIdFrame == <<today, last, pc, loc, writeLock,
                value, detected, sources, prices, factors, connVars>>

\* names of the securities written inside the block
TxnNames == { "AAPL", "GOOGL" }

\* exceptions the block raises
TxnExceptions == { ErrRuntime, ErrDatabase, ErrKeyboardInterrupt }

\* rowid of the next INSERT INTO securities on the connection
TxnNextId == LastRowId(seqSec + Cardinality(pending[1]))

\* with db.transaction():
TxnEnter ==
    /\ txn.pos # "in"
    /\ txn' = [NoTxn EXCEPT !.pos = "in"]
    /\ UNCHANGED <<store, pending, txnFrame>>

\* in the block: db.execute("INSERT INTO securities (name) VALUES (?)", (name,))
TxnExecute(name) ==
    /\ txn.pos = "in"
    /\ TxnNextId <= MaxSecurities
    /\ LET row == SecurityRow(TxnNextId, name, NoAttrs)
       IN  /\ pending' = [pending EXCEPT ![1] = @ \cup { row }]
           /\ txn' = [txn EXCEPT !.wrote = @ \cup { row }]
    /\ UNCHANGED <<store, txnFrame>>

\* in the block: SecurityRepository.create(name), which ends with self._db.commit()
TxnCreate(name) ==
    /\ txn.pos = "in"
    /\ TxnNextId <= MaxSecurities
    /\ LET row == SecurityRow(TxnNextId, name, NoAttrs)
       IN  /\ securities' = securities \cup pending[1] \cup { row }
           /\ seqSec' = TxnNextId
           /\ pending' = [pending EXCEPT ![1] = {}]
           /\ txn' = [txn EXCEPT !.wrote = @ \cup { row }, !.repo = @ \cup { row }]
    /\ UNCHANGED <<identifiers, txnFrame>>

\* in the block: SecurityRepository.add_identifier(sid, t, v), which ends with
\* self._db.commit(); an exception it raises leaves the block
TxnAddIdentifier(sid, t, v) ==
    /\ txn.pos = "in"
    /\ \E o \in AddIdentifierOutcomes(securities \cup pending[1], identifiers,
                                      sid, t, v, FALSE, NULL, NULL) :
        /\ BagCardinality(o.identifiers) <= MaxIdentifiers
        /\ identifiers' = o.identifiers
        /\ pending' = [pending EXCEPT ![1] = {}]
        /\ IF o.err = ErrNone
           THEN /\ securities' = securities \cup pending[1]
                /\ seqSec' = seqSec + Cardinality(pending[1])
                /\ txn' = [txn EXCEPT !.repo = @ \cup
                               { IdentifierRow(sid, t, v, FALSE, NULL, NULL) }]
           ELSE /\ UNCHANGED <<securities, seqSec>>
                /\ txn' = [txn EXCEPT !.pos = "failed", !.raised = o.err,
                                      !.err = ErrTransaction, !.cause = o.err]
    /\ UNCHANGED txnIdFrame

\* the block completes: self._conn.commit()
TxnCommit ==
    /\ txn.pos = "in"
    /\ securities' = securities \cup pending[1]
    /\ seqSec' = seqSec + Cardinality(pending[1])
    /\ pending' = [pending EXCEPT ![1] = {}]
    /\ txn' = [txn EXCEPT !.pos = "committed"]
    /\ UNCHANGED <<identifiers, txnFrame>>

\* the block raises e: except Exception rolls back and raises TransactionError from e;
\* an exception that is not an Exception passes through the handler
TxnRaise(e) ==
    /\ txn.pos = "in"
    /\ IF IsInstance(e, "Exception")
       THEN /\ pending' = [pending EXCEPT ![1] = {}]
            /\ txn' = [txn EXCEPT !.pos = "failed", !.raised = e,
                                  !.err = ErrTransaction, !.cause = e]
       ELSE /\ pending' = pending
            /\ txn' = [txn EXCEPT !.pos = "failed", !.raised = e, !.err = e]
    /\ UNCHANGED <<store, txnFrame>>

NextTxn ==
    \/ TxnEnter
    \/ \E name \in TxnNames : TxnExecute(name)
    \/ \E name \in TxnNames : TxnCreate(name)
    \/ \E sid \in LookupSecurities : TxnAddIdentifier(sid, DatedKey[1], DatedKey[2])
    \/ TxnCommit
    \/ \E e \in TxnExceptions : TxnRaise(e)

SpecTxn == Init /\ [][NextTxn]_vars


\* --------------------------------------------- removal of a security
\* the rows of bag ids that do not belong to security sid
WithoutSecurity(ids, sid) ==
    LET kept == { r \in BagToSet(ids) : r.security_id # sid }
    IN  [r \in kept |-> CopiesIn(r, ids)]

\* DeleteSecurity without ON DELETE CASCADE
DeleteSecurity_NoCascade(sid) ==
    /\ CanCall("delete", "", "")
    /\ \E s \in securities : s.security_id = sid
    /\ securities' = { s \in securities : s.security_id # sid }
    /\ last' = [CallRecord("delete") EXCEPT !.sid = sid]
    /\ UNCHANGED <<identifiers, seqSec, today, pc, loc, pending, writeLock,
                   value, detected, sources, prices, factors, txn, connVars>>

\* DELETE FROM securities WHERE security_id = sid through DatabaseConnection.execute,
\* then commit; foreign keys are ON, so the rows that reference it with ON DELETE
\* CASCADE go with it, and sqlite_sequence keeps the AUTOINCREMENT counter
DeleteSecurity(sid) ==
    /\ CanCall("delete", "", "")
    /\ \E s \in securities : s.security_id = sid
    /\ securities' = { s \in securities : s.security_id # sid }
    /\ identifiers' = WithoutSecurity(identifiers, sid)
    /\ prices' = { p \in prices : p.security_id # sid }
    /\ factors' = { fd \in factors : fd.security_id # sid }
    /\ last' = [CallRecord("delete") EXCEPT !.sid = sid]
    /\ UNCHANGED <<seqSec, today, pc, loc, pending, writeLock,
                   value, detected, sources, txn, connVars>>

\* (type, value, valid_from, valid_to) of the associations registered here
LifeArgs ==
    { <<DatedKey[1], DatedKey[2], NULL, NULL>>,
      <<DatedKey[1], DatedKey[2], 0, NULL>>,
      <<PlainKey[1], PlainKey[2], NULL, NULL>> }

NextLife ==
    \/ Return
    \/ \E a \in CreateArgs : Create(a[1], a[2])
    \/ \E sid \in SecurityIds, a \in LifeArgs :
           AddIdentifier(sid, a[1], a[2], FALSE, a[3], a[4])
    \/ \E k \in Keys, a \in CreateArgs : ResolveOrCreate(k[1], k[2], a[1], a[2])
    \/ \E sid \in SecurityIds : DeleteSecurity(sid)

SpecLife == Init /\ [][NextLife]_vars

\* ------------------------------------------------- DatabaseConnection life cycle
\* One DatabaseConnection instance (conn) on the database at its path (db, sources and
\* the tables); pending[1] holds the rows its open SQLite transaction has inserted.
MaxConnects == 3        \* cap on the sqlite3.Connection objects one instance opens
MaxSourceSeq == 12      \* cap on sqlite_sequence of data_sources

\* a database file that initialize_schema can set up
FilePath == "portfolio.db"
\* a path whose directory does not exist: sqlite3.connect raises OperationalError
MissingPath == "/missing/portfolio.db"
\* a file that is not a database: sqlite3.connect opens it lazily and the first
\* statement, PRAGMA journal_mode=WAL, raises sqlite3.DatabaseError
GarbagePath == "notes.txt"
\* a database file that holds a table security_identifiers of another layout:
\* CREATE TABLE IF NOT EXISTS passes over it and CREATE INDEX fails on its columns
LegacyPath == "legacy.db"

ConnPaths == { MemoryPath, FilePath, MissingPath, GarbagePath, LegacyPath }

\* the database found at path before the instance first connects
DatabaseAt(path) ==
    IF path = LegacyPath THEN [EmptyDatabase EXCEPT !.incompatible = TRUE]
    ELSE IF path = GarbagePath THEN [EmptyDatabase EXCEPT !.schema = "garbage"]
    ELSE EmptyDatabase

\* the variables no call on the connection touches
connFrame == <<today, last, pc, loc, writeLock, value, detected, txn>>

\* INSERT OR REPLACE INTO data_sources, in place of INSERT OR IGNORE
SeedDataSources_Replace(srcs, seq) ==
    { ds \in srcs : \A i \in DOMAIN DefaultSourceCodes :
                        ds.source_code # DefaultSourceCodes[i] }
        \cup { [source_id |-> seq + i, source_code |-> DefaultSourceCodes[i],
                priority |-> DefaultPriorities[i], is_active |-> 1]
               : i \in DOMAIN DefaultSourceCodes }

\* INSERT OR IGNORE INTO data_sources (source_code, source_type, description, priority)
\* for DEFAULT_DATA_SOURCES: a default whose source_code is in the table is skipped
\* (source_code is UNIQUE); each of the statements takes the next AUTOINCREMENT id,
\* skipped or not
SeedDataSources(srcs, seq) ==
    srcs \cup { [source_id |-> seq + i, source_code |-> DefaultSourceCodes[i],
                 priority |-> DefaultPriorities[i], is_active |-> 1]
                : i \in { j \in DOMAIN DefaultSourceCodes :
                            \A ds \in srcs : ds.source_code # DefaultSourceCodes[j] } }

\* initialize_schema(conn) on database d with data_sources rows srcs: the exception it
\* raises, the database and data_sources afterwards. The tables are created first, so
\* they stay when a later statement fails.
InitializeSchema(d, srcs) ==
    IF d.schema = "garbage"
    THEN [err |-> ErrSqlite, db |-> d, sources |-> srcs]
    ELSE IF d.incompatible
    THEN [err |-> ErrSqlite,
          db |-> [d EXCEPT !.schema = IF @ = "none" THEN "tables" ELSE @],
          sources |-> srcs]
    ELSE [err |-> ErrNone,
          db |-> [d EXCEPT !.schema = "full",
                           !.types = @ \cup DefaultIdentifierTypes,
                           !.seqSrc = @ + Len(DefaultSourceCodes)],
          sources |-> SeedDataSources(srcs, d.seqSrc)]

\* the outcome of a call that changes nothing and raises e
ConnOutcome(c, d, srcs, e) ==
    [conn |-> c, db |-> d, sources |-> srcs, committed |-> FALSE, err |-> e]

\* initialize() on a connected instance: initialize_schema, which ends with
\* conn.commit(), then _initialized = True; sqlite3.Error becomes DatabaseError
InitializeConnected(c, d, srcs) ==
    LET r == InitializeSchema(d, srcs)
    IN  IF r.err = ErrNone
        THEN [conn |-> [c EXCEPT !.initialized = TRUE], db |-> r.db,
              sources |-> r.sources, committed |-> TRUE, err |-> ErrNone]
        ELSE ConnOutcome(c, r.db, srcs, ErrDatabase)

\* ConnectOutcome that opens a connection whether or not _conn is set
ConnectOutcome_Reopen(c, d, srcs) ==
    IF c.path = MissingPath THEN ConnOutcome(c, d, srcs, ErrConnection)
    ELSE LET opened == [c EXCEPT !.h = c.handles + 1, !.handles = c.handles + 1]
         IN  IF d.schema = "garbage" THEN ConnOutcome(opened, d, srcs, ErrConnection)
             ELSE IF c.auto /\ ~c.initialized
                  THEN InitializeConnected(opened, d, srcs)
             ELSE ConnOutcome(opened, d, srcs, ErrNone)

\* connect(): returns at once when _conn is set; else sqlite3.connect, the PRAGMAs and,
\* when auto_initialize and not _initialized, initialize(). except sqlite3.Error raises
\* ConnectionError and leaves _conn as it is; the DatabaseError of initialize() is not
\* a sqlite3.Error and passes through.
ConnectOutcome(c, d, srcs) ==
    IF c.h # 0 THEN ConnOutcome(c, d, srcs, ErrNone)
    ELSE IF c.path = MissingPath THEN ConnOutcome(c, d, srcs, ErrConnection)
    ELSE LET opened == [c EXCEPT !.h = c.handles + 1, !.handles = c.handles + 1]
         IN  IF d.schema = "garbage" THEN ConnOutcome(opened, d, srcs, ErrConnection)
             ELSE IF c.auto /\ ~c.initialized
                  THEN InitializeConnected(opened, d, srcs)
             ELSE ConnOutcome(opened, d, srcs, ErrNone)

\* initialize(): when _conn is None, connect() and return ("connect() will call
\* initialize()"); else initialize_schema
InitializeOutcome(c, d, srcs) ==
    IF c.h = 0 THEN ConnectOutcome(c, d, srcs)
    ELSE InitializeConnected(c, d, srcs)

\* the state after a call op with outcome o whose statement inserted the rows ins
ConnApply(op, o, ins) ==
    /\ o.conn.handles <= MaxConnects
    /\ o.db.seqSrc <= MaxSourceSeq
    /\ conn' = [o.conn EXCEPT !.op = op, !.err = o.err]
    /\ db' = o.db
    /\ sources' = o.sources
    /\ IF o.committed
       THEN /\ securities' = securities \cup pending[1]
            /\ seqSec' = seqSec + Cardinality(pending[1])
            /\ pending' = [pending EXCEPT ![1] = ins]
       ELSE /\ pending' = [pending EXCEPT ![1] = @ \cup ins]
            /\ UNCHANGED <<securities, seqSec>>
    /\ UNCHANGED <<identifiers, prices, factors, connFrame>>

\* db.connect() / with db: (__enter__)
Connect(op) ==
    ConnApply(op, ConnectOutcome(conn, db, sources), {})

\* db.initialize()
Initialize ==
    ConnApply("initialize", InitializeOutcome(conn, db, sources), {})

\* a statement on table securities runs on the connection of outcome o
StatementRuns(o) ==
    o.db.schema \in { "tables", "full" }

\* db.execute("INSERT INTO securities (name) VALUES ('AAPL')"): connect() when _conn is
\* None, then the statement; sqlite3.Error becomes DatabaseError
Execute ==
    LET o == ConnectOutcome(conn, db, sources)
    IN  IF o.err # ErrNone THEN ConnApply("execute", o, {})
        ELSE IF ~StatementRuns(o)
             THEN ConnApply("execute", [o EXCEPT !.err = ErrDatabase], {})
        ELSE /\ TxnNextId <= MaxSecurities
             /\ ConnApply("execute", o, { SecurityRow(TxnNextId, "AAPL", NoAttrs) })

\* db.fetchone / db.fetchall("SELECT * FROM securities"): execute, then the cursor's fetch
Fetch(op) ==
    LET o == ConnectOutcome(conn, db, sources)
    IN  IF o.err # ErrNone \/ StatementRuns(o) THEN ConnApply(op, o, {})
        ELSE ConnApply(op, [o EXCEPT !.err = ErrDatabase], {})

\* with db.transaction(): pass  -- connect() when _conn is None, outside the try; then
\* the block completes and self._conn.commit() runs
Transaction ==
    LET o == ConnectOutcome(conn, db, sources)
    IN  IF o.err # ErrNone THEN ConnApply("transaction", o, {})
        ELSE ConnApply("transaction", [o EXCEPT !.committed = TRUE], {})

\* db.commit(): commits when _conn is set
Commit ==
    ConnApply("commit", [ConnOutcome(conn, db, sources, ErrNone)
                             EXCEPT !.committed = conn.h # 0], {})

\* db.close() / leaving with db: (__exit__): closes and forgets _conn when it is set;
\* the open transaction is lost, and with it the whole database when it is in memory
Close(op) ==
    /\ conn' = [conn EXCEPT !.h = 0, !.op = op, !.err = ErrNone]
    /\ IF conn.h = 0
       THEN UNCHANGED <<db, sources, store, prices, factors, pending>>
       ELSE /\ pending' = [pending EXCEPT ![1] = {}]
            /\ IF conn.path = MemoryPath
               THEN /\ db' = EmptyDatabase
                    /\ sources' = {}
                    /\ securities' = {}
                    /\ identifiers' = EmptyBag
                    /\ seqSec' = 0
                    /\ prices' = {}
                    /\ factors' = {}
               ELSE UNCHANGED <<db, sources, store, prices, factors>>
    /\ UNCHANGED connFrame

\* db.connection: the property raises ConnectionError when _conn is None
ReadConnection ==
    /\ conn' = [conn EXCEPT !.op = "connection",
                            !.err = IF conn.h = 0 THEN ErrConnection ELSE ErrNone]
    /\ UNCHANGED <<db, sources, store, prices, factors, pending, connFrame>>

\* a new DatabaseConnection(path, auto_initialize=auto), not connected, on the
\* database found at path
InitConn ==
    /\ InitTables
    /\ \E path \in ConnPaths, auto \in BOOLEAN :
          /\ conn = NewConnection(path, auto)
          /\ db = DatabaseAt(path)
    /\ sources = {}

NextConn ==
    \/ \E op \in { "connect", "__enter__" } : Connect(op)
    \/ Initialize
    \/ Execute
    \/ \E op \in { "fetchone", "fetchall" } : Fetch(op)
    \/ Transaction
    \/ Commit
    \/ \E op \in { "close", "__exit__" } : Close(op)
    \/ ReadConnection

SpecConn == InitConn /\ [][NextConn]_vars

\* ------------------------------------------- initialize_schema on a database in use
\* The connected, initialized database of Init, whose data_sources rows an
\* administrator changes and removes while initialize() is called again.

\* data_sources has the row src
HasSource(src) == \E ds \in sources : ds.source_id = src

\* DELETE FROM data_sources WHERE source_id = src, committed; refused while a fact row
\* references the source (foreign keys are ON)
DeleteSource(src) ==
    /\ HasSource(src)
    /\ \A p \in prices \cup factors : p.source_id # src
    /\ sources' = { ds \in sources : ds.source_id # src }
    /\ UNCHANGED <<resolverVars, value, detected, prices, factors, txn>>

NextSchema ==
    \/ Initialize
    \/ \E a \in CreateArgs : LastRowId(seqSec) \in OverlaySecurities /\ Create(a[1], a[2])
    \/ Return
    \/ \E src \in OverlaySources :
           InsertPrice(1, src, 0, 100 + src)
    \/ \E src \in OverlaySources, flag \in { 0, 1 } : HasSource(src) /\ SetActive(src, flag)
    \/ \E u \in PriorityUpdates : HasSource(u[1]) /\ SetPriority(u[1], u[2])
    \/ \E src \in OverlaySources : DeleteSource(src)

SpecSchema == Init /\ [][NextSchema]_vars

\* ------------------------------------------------ resolve among tying rows
\* Association rows with their surrogate id. The rows come from the INSERT of
\* add_identifier on connections whose duplicate check has passed (in SpecRace both
\* callers pass it before either commits), so two securities can hold (type, value)
\* with a NULL valid_from.

\* The plan SQLite's planner uses for the SELECT of resolve and get_by_identifier is
\* db.plan: "index" walks the index of UNIQUE (identifier_type, identifier_value,
\* valid_from) backwards, which is the plan of a database without statistics; "sort"
\* collects the candidates and sorts them, which the planner can choose once ANALYZE
\* has written sqlite_stat1.
Plans == { "index", "sort" }

\* id of the next security_identifiers row: above every id in the table (only the
\* order of the ids is used)
NextAssociationId(ids) ==
    LET used == { r.id : r \in BagToSet(ids) }
    IN  IF used = {} THEN 1 ELSE 1 + (CHOOSE m \in used : \A n \in used : n <= m)

\* a security_identifiers row with its AUTOINCREMENT id
AssociationRow(id, sid, t, v, vf, vt) ==
    [id |-> id, security_id |-> sid, identifier_type |-> t, identifier_value |-> v,
     is_primary |-> FALSE, valid_from |-> vf, valid_to |-> vt]

\* LIMIT 1 among the rows that stand first under ORDER BY valid_from DESC NULLS LAST:
\* rows with equal keys lie in the index in id order, so the backward walk meets the
\* highest id first and the sort keeps the lowest id first
LimitOne(rows, plan) ==
    IF plan = "index"
    THEN CHOOSE r \in rows : \A q \in rows : r.id >= q.id
    ELSE CHOOSE r \in rows : \A q \in rows : r.id <= q.id

\* what resolve returns on the rows ids: a security id, or NULL for None
ResolveResult(ids, t, v, asof, plan) ==
    LET first == ResolveFirstRows(ids, t, v, asof)
    IN  IF first = {} THEN NULL ELSE LimitOne(first, plan).security_id

\* FROM securities s JOIN security_identifiers si ON s.security_id = si.security_id:
\* the rows of ids whose security is in secs
JoinSecurities(secs, ids) ==
    LET joined == { r \in BagToSet(ids) : \E s \in secs : s.security_id = r.security_id }
    IN  [r \in joined |-> CopiesIn(r, ids)]

\* what get_by_identifier returns: the securities row of the first joined row as a
\* one-element set, {} for None
GetByIdentifier(secs, ids, t, v, asof, plan) ==
    LET first == ResolveFirstRows(JoinSecurities(secs, ids), t, v, asof)
    IN  IF first = {} THEN {}
        ELSE { s \in secs : s.security_id = LimitOne(first, plan).security_id }

\* (valid_from, valid_to) of the rows inserted here
TieIntervals == { <<NULL, NULL>>, <<0, NULL>>, <<1, NULL>>, <<NULL, 1>> }

\* INSERT INTO security_identifiers ... ; commit (the table's constraints apply)
InsertAssociation(sid, t, v, vf, vt) ==
    /\ last.op = "none"
    /\ BagCardinality(identifiers) < MaxIdentifiers
    /\ ~InsertRefused(securities, identifiers, sid, t, v, vf)
    /\ identifiers' = InsertIdentifier(identifiers,
           AssociationRow(NextAssociationId(identifiers), sid, t, v, vf, vt))
    /\ UNCHANGED <<securities, seqSec, today, last, raceVars>>

\* db.execute("ANALYZE"): the planner's choice follows the new statistics
Analyze(plan) ==
    /\ last.op = "none"
    /\ db' = [db EXCEPT !.plan = plan]
    /\ UNCHANGED <<store, today, last, pc, loc, pending, writeLock,
                   value, detected, sources, prices, factors, txn, conn>>

\* IdentifierResolver.resolve(value, type, as_of), also called again at once
ResolveAgain(t, v, asof) ==
    /\ last.op \in { "none", "resolve" }
    /\ last' = [CallRecord("resolve") EXCEPT !.t = t, !.v = v, !.asof = asof,
                   !.result = ResolveResult(identifiers, t, v, AsOf(asof), db.plan)]
    /\ UNCHANGED <<store, today, raceVars>>

\* SecurityRepository.get_by_identifier(type, value, as_of); the outcome keeps the
\* security_id of the SecurityDict
GetByIdentifierCall(t, v, asof) ==
    /\ last.op \in { "none", "resolve" }
    /\ LET found == GetByIdentifier(securities, identifiers, t, v, AsOf(asof), db.plan)
       IN  last' = [CallRecord("get_by_identifier") EXCEPT !.t = t, !.v = v,
                       !.asof = asof,
                       !.result = IF found = {} THEN NULL
                                  ELSE (CHOOSE s \in found : TRUE).security_id]
    /\ UNCHANGED <<store, today, raceVars>>

NextTie ==
    \/ Return
    \/ \E a \in CreateArgs : LastRowId(seqSec) \in LookupSecurities /\ Create(a[1], a[2])
    \/ \E sid \in LookupSecurities, p \in TieIntervals :
           InsertAssociation(sid, DatedKey[1], DatedKey[2], p[1], p[2])
    \/ \E plan \in Plans : Analyze(plan)
    \/ \E sid \in LookupSecurities : DeleteSecurity(sid)
    \/ \E asof \in OptDates : ResolveAgain(DatedKey[1], DatedKey[2], asof)
    \/ \E asof \in OptDates : GetByIdentifierCall(DatedKey[1], DatedKey[2], asof)

SpecTie == Init /\ [][NextTie]_vars

\* ================================================================== claims
\* the association rows of (type, value)
RowsOf(t, v) ==
    { r \in BagToSet(identifiers) : r.identifier_type = t /\ r.identifier_value = v }

\* date d lies in the half-open validity interval [valid_from, valid_to) of row r
Covers(r, d) ==
    /\ (r.valid_from = NULL \/ r.valid_from <= d)
    /\ (r.valid_to = NULL \/ d < r.valid_to)

\* number of association rows of (type, value) that satisfy P, equal rows counted apart
CountRows(t, v, P(_)) ==
    BagCardinality([r \in { q \in RowsOf(t, v) : P(q) } |-> CopiesIn(r, identifiers)])

\* C1: resolve returns an id exactly when some association of (type, value) covers as_of
\* in the half-open sense, and the id is the security of such an association.
C1_ResolveHalfOpen ==
    last.op = "resolve" =>
        LET hits == { r \in RowsOf(last.t, last.v) : Covers(r, AsOf(last.asof)) }
        IN  /\ (last.result # NULL) <=> (hits # {})
            /\ last.result # NULL => \E r \in hits : r.security_id = last.result

\* C1 witness: a resolve whose as_of equals the valid_from of the row it hit and the
\* valid_to of another security's row, which it missed.
C1_Witness ==
    /\ last.op = "resolve"
    /\ last.asof # NULL
    /\ last.result # NULL
    /\ \E r, q \in RowsOf(last.t, last.v) :
          /\ r.security_id = last.result
          /\ r.valid_from = last.asof
          /\ q.security_id # last.result
          /\ q.valid_to = last.asof

\* C2: a resolve_or_create that inserted a security row leaves the association of
\* (type, value) with that security behind as well, whether it returned or failed.
C2_CreateAtomic ==
    (last.op = "resolve_or_create" /\ last.created = 1) =>
        \E r \in RowsOf(last.t, last.v) : r.security_id = seqSec

\* C3: two successive resolve_or_create calls with the same (value, type) insert at
\* most one security row between them.
C3_Idempotent ==
    (last.op = "resolve_or_create" /\ last.prevOp = "resolve_or_create") =>
        last.prevCreated + last.created <= 1

\* C4: when two callers on separate connections run resolve_or_create for the same
\* (type, value) and both find nothing, at most one of them ends with an association
\* for it, the other ends with a DuplicateSecurityError, and no two securities hold
\* an association for it with the same valid_from.
C4_RaceOneWinner ==
    ( /\ \A c \in Callers : pc[c] = "done" /\ loc[c].branch = "create"
      /\ loc[1].t = loc[2].t
      /\ loc[1].v = loc[2].v )
    => LET Holds(c) == \E r \in RowsOf(loc[c].t, loc[c].v) : r.security_id = loc[c].id
       IN  /\ ~(Holds(1) /\ Holds(2))
           /\ \A c \in Callers : ~Holds(c) => IsInstance(loc[c].err, ErrDuplicate)
           /\ \A r, q \in RowsOf(loc[1].t, loc[1].v) :
                  r.valid_from = q.valid_from => r.security_id = q.security_id

\* C5: at most one association exists for any (identifier_type, identifier_value,
\* valid_from) triple, the triple with a NULL valid_from included.
C5_NaturalKey ==
    \A r \in BagToSet(identifiers) :
        LET SameFrom(q) == q.valid_from = r.valid_from
        IN  CountRows(r.identifier_type, r.identifier_value, SameFrom) <= 1

\* C6: for each (identifier_type, identifier_value) and each date, at most one
\* association's half-open validity interval contains the date.
C6_NonOverlap ==
    \A k \in Keys, d \in Dates :
        LET CoversDate(q) == Covers(q, d)
        IN  CountRows(k[1], k[2], CoversDate) <= 1

\* C7: add_identifier for security B with a (type, value, valid_from) that a different
\* security already holds fails with DuplicateSecurityError and leaves the store unchanged.
C7_DuplicateRejected ==
    [][ ( /\ last'.op = "add_identifier"
          /\ \E r \in RowsOf(last'.t, last'.v) :
                r.valid_from = last'.vf /\ r.security_id # last'.sid )
        => ( /\ IsInstance(last'.err, ErrDuplicate)
             /\ store' = store ) ]_vars

C9_RoundTrip ==
    (last.op = "resolve" /\ last.asof = NULL
        /\ last.prevOp = "resolve_or_create" /\ last.prevErr = ErrNone) =>
        last.result = last.prevResult

\* C9 witness: such a resolve has run after a resolve_or_create that created the security.
C9_Witness ==
    /\ last.op = "resolve"
    /\ last.asof = NULL
    /\ last.prevOp = "resolve_or_create"
    /\ last.prevErr = ErrNone
    /\ last.prevCreated = 1
    /\ last.result = last.prevResult
    /\ last.result # NULL

\* C10: when an association of (type, value) covers today, resolve_or_create returns the
\* security of such an association without error, whatever the name, and the tables are
\* as they were.
C10_ExistingUnchanged ==
    [][ ( /\ last'.op = "resolve_or_create"
          /\ \E r \in RowsOf(last'.t, last'.v) : Covers(r, today) )
        => ( /\ last'.err = ErrNone
             /\ \E r \in RowsOf(last'.t, last'.v) :
                    Covers(r, today) /\ r.security_id = last'.result
             /\ store' = store ) ]_vars

\* C10 witness: resolve_or_create with an empty name and other attributes has returned
\* an existing security that still carries its own name and attributes.
C10_Witness ==
    /\ last.op = "resolve_or_create"
    /\ last.name = ""
    /\ last.err = ErrNone
    /\ last.created = 0
    /\ \E s \in securities :
          /\ s.security_id = last.result
          /\ s.name # ""
          /\ s.description = NoAttrs.description

\* the whole of s is in the language of pattern p
FullMatch(p, s) ==
    /\ Len(s) = Len(p)
    /\ \A i \in 1..Len(p) : s[i] \in p[i]

\* C13: detect_identifier_type returns the first type in the order FIGI, ISIN, CUSIP,
\* SEDOL, JP_CODE whose pattern the whole value matches, and None when the whole value
\* matches no pattern; a value matching both FIGI and ISIN is FIGI.
C13_FirstMatchInOrder ==
    detected # NotCalled =>
        LET hits == { i \in DOMAIN DETECTION_ORDER :
                         FullMatch(IDENTIFIER_PATTERNS(DETECTION_ORDER[i]), value) }
        IN  /\ hits = {} => detected = NullText
            /\ hits # {} => /\ detected \in { DETECTION_ORDER[i] : i \in hits }
                            /\ \A i \in hits : detected = DETECTION_ORDER[i]
                                   => \A j \in hits : i <= j

\* C14: detect_identifier_type returns a type only for a string of exactly the type's
\* length (FIGI and ISIN 12, CUSIP 9, SEDOL 7, JP_CODE 4) made of uppercase letters and
\* digits alone; the empty string, other lengths and other characters give None.
C14_ExactLengthAndAlphabet ==
    detected \notin { NotCalled, NullText } =>
        /\ Len(value) = Len(IDENTIFIER_PATTERNS(detected))
        /\ \A i \in 1..Len(value) : value[i] \in AlNum

\* the securities of the associations of (t, v) that cover date d
Hits(t, v, d) == { r.security_id : r \in { q \in RowsOf(t, v) : Covers(q, d) } }

\* C11: resolve_auto returns the hit under the detected type when detection succeeds
\* and that type has a hit; otherwise the TICKER_YAHOO hit when there is one; otherwise
\* the TICKER_BBG hit when there is one; and None only when all of them miss.
C11_ResolveAutoOrder ==
    last.op = "resolve_auto" =>
        LET d == AsOf(last.asof)
            detected_type == DetectIdentifierType(Chars(last.v))
            byDetected == IF detected_type = NullText THEN {}
                          ELSE Hits(detected_type, last.v, d)
            byYahoo == Hits("TICKER_YAHOO", last.v, d)
            byBloomberg == Hits("TICKER_BBG", last.v, d)
        IN  IF byDetected # {} THEN last.result \in byDetected
            ELSE IF byYahoo # {} THEN last.result \in byYahoo
            ELSE IF byBloomberg # {} THEN last.result \in byBloomberg
            ELSE last.result = NULL

\* C11 witness: resolve_auto of a value that detection classifies as ISIN missed under
\* ISIN, fell through to the tickers and returned the TICKER_YAHOO security although
\* TICKER_BBG has a hit for another security.
C11_Witness ==
    /\ last.op = "resolve_auto"
    /\ DetectIdentifierType(Chars(last.v)) = "ISIN"
    /\ Hits("ISIN", last.v, AsOf(last.asof)) = {}
    /\ last.result \in Hits("TICKER_YAHOO", last.v, AsOf(last.asof))
    /\ \E s \in Hits("TICKER_BBG", last.v, AsOf(last.asof)) : s # last.result

\* C12: resolve_or_raise returns an id that resolve returns for the same arguments when
\* there is one, raises IdentifierNotFoundError carrying its type and value arguments
\* exactly when resolve returns None, and changes nothing in the store either way.
C12_ResolveOrRaise ==
    [][ last'.op = "resolve_or_raise" =>
          LET results == ResolveResults(identifiers, last'.t, last'.v, AsOf(last'.asof))
          IN  /\ last'.err \in { ErrNone, ErrNotFound }
              /\ (last'.err = ErrNone) <=> (results # { NULL })
              /\ last'.err = ErrNone => last'.result \in results
              /\ last'.err = ErrNotFound =>
                    /\ last'.exc.identifier_type = last'.t
                    /\ last'.exc.identifier_value = last'.v
              /\ store' = store ]_vars

\* C12 witness: resolve_or_raise has raised IdentifierNotFoundError for an identifier
\* that has an association, though none covering as_of.
C12_Witness ==
    /\ last.op = "resolve_or_raise"
    /\ last.err = ErrNotFound
    /\ RowsOf(last.t, last.v) # {}

\* the facts of key k reported by active sources
ActiveFacts(facts, k) ==
    { q \in facts : KeyOf(q) = k /\ SourceOf(q.source_id).is_active = 1 }

\* the view rows are right for key k: exactly one row when an active source reports k,
\* from an active source of the least priority among those reporting k, and no row
\* when no active source reports k
OverlayRight(rows, facts, k) ==
    LET active == ActiveFacts(facts, k)
    IN  IF active = {} THEN rows = {}
        ELSE /\ Cardinality(rows) = 1
             /\ \A p \in rows :
                   /\ p \in active
                   /\ \A q \in active :
                         SourceOf(p.source_id).priority <= SourceOf(q.source_id).priority

\* C15: in every store state whose sources have integer priorities, best_prices holds
\* for each (security, date) reported by an active source exactly one row, of an active
\* source with the least priority among those reporting it, and no row for a
\* (security, date) reported by inactive sources only; likewise latest_factors per
\* (security, factor, date).
C15_OverlayPicksMinimum ==
    /\ \A k \in { BestPricesKey(p) : p \in prices } :
          \A w \in SubqueryResults(prices, k) :
              OverlayRight(ViewRows(prices, k, w), prices, k)
    /\ \A k \in { LatestFactorsKey(fd) : fd \in factors } :
          \A w \in SubqueryResults(factors, k) :
              OverlayRight(ViewRows(factors, k, w), factors, k)

\* C15 witness: one (security, date) is reported by an inactive source of priority 10
\* and by two active sources that tie at a higher priority number.
C15_Witness ==
    /\ \E p1, p2, p3 \in prices :
          /\ BestPricesKey(p1) = BestPricesKey(p2)
          /\ BestPricesKey(p2) = BestPricesKey(p3)
          /\ ~IsActive(p1.source_id)
          /\ SourceOf(p1.source_id).priority = 10
          /\ p2 # p3
          /\ IsActive(p2.source_id)
          /\ IsActive(p3.source_id)
          /\ SourceOf(p2.source_id).priority = SourceOf(p3.source_id).priority

\* no row of a view over facts comes from a source that is not active
NoInactiveRow(facts) ==
    \A k \in { KeyOf(p) : p \in facts } :
        \A w \in SubqueryResults(facts, k) :
            \A p \in ViewRows(facts, k, w) : SourceOf(p.source_id).is_active = 1

\* a step that sets is_active to 0 on source src, whose row the view over facts can
\* show for key k, leaves the view with the row of the least-priority source among
\* the other active sources reporting k, or with no row when there is none
FlipsToNext(facts) ==
    \A src \in { ds.source_id : ds \in sources } :
        (SourceOf(src).is_active = 1 /\ SourceOf(src)'.is_active = 0) =>
            \A k \in { KeyOf(p) : p \in facts } :
                (\E w \in SubqueryResults(facts, k) : w.source_id = src) =>
                    LET rest == { q \in ActiveFacts(facts, k) : q.source_id # src }
                    IN  \A w2 \in SubqueryResults(facts, k)' :
                            LET rows == ViewRows(facts, k, w2)'
                            IN  IF rest = {} THEN rows = {}
                                ELSE /\ Cardinality(rows) = 1
                                     /\ rows \subseteq rest
                                     /\ \A p \in rows, q \in rest :
                                           SourceOf(p.source_id).priority
                                               <= SourceOf(q.source_id).priority

\* C16: best_prices and latest_factors never show a row of an inactive source; setting
\* is_active to 0 on the winning source of a key makes the view show the row of the
\* next-lowest-priority active source for that key; and a change to data_sources
\* changes no row of price_data or factor_data.
C16_InactiveExcluded ==
    [][ /\ NoInactiveRow(prices)'
        /\ NoInactiveRow(factors)'
        /\ FlipsToNext(prices)
        /\ FlipsToNext(factors)
        /\ sources' # sources => (prices' = prices /\ factors' = factors) ]_vars

\* C16 witness: the sources of priority 10, 50 and 100 report one (security, date), the
\* priority-10 source has been deactivated and the view shows the priority-50 row.
C16_Witness ==
    \E p1, p2, p3 \in prices :
        /\ BestPricesKey(p1) = BestPricesKey(p2)
        /\ BestPricesKey(p2) = BestPricesKey(p3)
        /\ SourceOf(p1.source_id).priority = 10
        /\ SourceOf(p2.source_id).priority = 50
        /\ SourceOf(p3.source_id).priority = 100
        /\ ~IsActive(p1.source_id)
        /\ IsActive(p2.source_id)
        /\ IsActive(p3.source_id)
        /\ SubqueryResults(prices, BestPricesKey(p1)) = { p2 }
        /\ ViewRows(prices, BestPricesKey(p1), p2) = { p2 }

\* C17: after a block guarded by transaction() has completed, every row written in it
\* is committed; after the block has raised an exception, no row written in it is in
\* the database, the caller has received TransactionError with the block's exception as
\* its cause; and after either exit the connection holds no uncommitted write.
C17_TransactionAllOrNothing ==
    /\ txn.pos = "committed" =>
          /\ txn.wrote \subseteq securities
          /\ pending[1] = {}
    /\ txn.pos = "failed" =>
          /\ txn.wrote \cap securities = {}
          /\ IsInstance(txn.err, ErrTransaction)
          /\ txn.cause = txn.raised
          /\ pending[1] = {}

\* the exception classes of the domain conditions: ConnectionFailure,
\* TransactionFailure, DuplicateIdentifier, IdentifierNotFound, ValidationFailure
DomainConditions ==
    { ErrConnection, ErrTransaction, ErrDuplicate, ErrNotFound, ErrValidation }

\* C18: whatever add_identifier, resolve_or_create, resolve, resolve_auto or
\* resolve_or_raise raises is an instance of one of the domain conditions; a constraint
\* violation never reaches the caller as the generic DatabaseError.
C18_OnlyDomainConditions ==
    (last.op \in { "add_identifier", "resolve_or_create", "resolve",
                   "resolve_auto", "resolve_or_raise" }
        /\ last.err # ErrNone) =>
        \E c \in DomainConditions : IsInstance(last.err, c)

\* C19: every association names an existing security; add_identifier for a security id
\* that does not exist adds no row and fails, with DatabaseError from the INSERT when its
\* duplicate check has let the call through; removing a security removes exactly its
\* associations; and no other step removes or changes an association.
C19_ReferentialIntegrity ==
    [][ /\ \A r \in BagToSet(identifiers') : ~ForeignKeyViolation(securities', r.security_id)
        /\ (last'.op = "add_identifier" /\ ForeignKeyViolation(securities, last'.sid)) =>
              /\ last'.err # ErrNone
              /\ identifiers' = identifiers
              /\ (\A r \in DupCheckRows(identifiers, last'.t, last'.v, last'.vf) :
                      r.security_id = last'.sid) => last'.err = ErrDatabase
        /\ (last'.op = "delete" /\ last' # last) =>
              /\ \A r \in BagToSet(identifiers') : r.security_id # last'.sid
              /\ \A r \in BagToSet(identifiers) :
                    r.security_id # last'.sid =>
                        CopiesIn(r, identifiers') = CopiesIn(r, identifiers)
        /\ last'.op # "delete" =>
              \A r \in BagToSet(identifiers) :
                  CopiesIn(r, identifiers') >= CopiesIn(r, identifiers) ]_vars

\* C19 witness: add_identifier for the id of a security that has been removed has failed
\* with DatabaseError, while associations of other securities are in the table.
C19_Witness ==
    /\ last.op = "add_identifier"
    /\ last.err = ErrDatabase
    /\ last.sid <= seqSec
    /\ ForeignKeyViolation(securities, last.sid)
    /\ identifiers # EmptyBag

\* C20: every id that create or the creation path of resolve_or_create assigns is
\* positive and above the AUTOINCREMENT counter, which never decreases and bounds every
\* id assigned before; and a security that stays in the table keeps its id.
C20_FreshImmutableIds ==
    [][ /\ seqSec' >= seqSec
        /\ \A s \in securities : s.security_id <= seqSec
        /\ \A s \in securities' \ securities :
              /\ s.security_id > 0
              /\ s.security_id > seqSec
              /\ s.security_id <= seqSec'
        /\ (last'.op = "create" /\ last' # last) =>
              /\ last'.result > seqSec
              /\ \E s \in securities' \ securities : s.security_id = last'.result
        /\ \A s \in securities :
              (\E s2 \in securities' : s2.security_id = s.security_id) =>
                  s \in securities' ]_vars

\* C20 witness: create has returned an id after securities with lower ids were removed,
\* the one with the highest id among them.
C20_Witness ==
    /\ last.op = "create"
    /\ last.result = MaxSecurities
    /\ Cardinality(securities) = 1

\* the calls that connect when the instance is not connected
ConnectingOps == { "connect", "execute", "fetchone", "fetchall", "transaction", "__enter__" }

\* everything a connection holds besides the instance's own fields
connData == <<db, sources, store, prices, factors, pending>>

\* C21: a new DatabaseConnection is disconnected; once connect, execute, fetchone,
\* fetchall, transaction or __enter__ has returned it is connected; after close or
\* __exit__ it is disconnected; connect on a connected instance keeps the same
\* underlying connection and its data; close on a disconnected instance changes
\* nothing; and reading the connection property while disconnected raises
\* ConnectionError.
C21_Lifecycle ==
    [][ /\ conn.op = "__init__" => conn.h = 0
        /\ (conn'.op \in ConnectingOps /\ conn'.err = ErrNone) => conn'.h # 0
        /\ conn'.op \in { "close", "__exit__" } => conn'.h = 0
        /\ (conn'.op = "connect" /\ conn.h # 0) =>
              (conn'.h = conn.h /\ conn'.err = ErrNone /\ UNCHANGED connData)
        /\ (conn'.op = "close" /\ conn.h = 0) =>
              (conn'.err = ErrNone /\ UNCHANGED connData)
        /\ (conn'.op = "connection" /\ conn.h = 0) => conn'.err = ErrConnection ]_vars

\* C21 witness: connect has returned on an instance that was connected and had
\* inserted a row: the first connection object is still the one in use and the row
\* is still in its open transaction.
C21_Witness ==
    /\ conn.op = "connect"
    /\ conn.h = 1
    /\ conn.handles = 1
    /\ pending[1] # {}

\* the schema is in place: tables, indexes and views, and the seed rows
SchemaExists ==
    /\ db.schema = "full"
    /\ DefaultIdentifierTypes \subseteq db.types
    /\ \A i \in DOMAIN DefaultSourceCodes :
          \E ds \in sources : ds.source_code = DefaultSourceCodes[i]

\* C26: after initialize() has returned without error, the schema exists in the
\* connected database and the instance is marked initialized, whether the instance was
\* connected or not at the call and whatever auto_initialize is.
C26_InitializeSetsUpSchema ==
    (conn.op = "initialize" /\ conn.err = ErrNone) =>
        (conn.h # 0 /\ conn.initialized /\ SchemaExists)

\* C27: with auto_initialize true, whenever the instance is connected to a database
\* the schema tables exist in it, after any sequence of connect, close and reconnect
\* (stated for the paths at which a database can be opened).
C27_ConnectedHasSchema ==
    (conn.auto /\ conn.h # 0 /\ conn.path # GarbagePath) =>
        db.schema \in { "tables", "full" }

\* C28: when connect() raises, it raises ConnectionError and leaves the instance
\* disconnected.
C28_FailedConnectDisconnected ==
    (conn.op \in { "connect", "__enter__" } /\ conn.err # ErrNone) =>
        (conn.err = ErrConnection /\ conn.h = 0)

\* initialize_schema runs in this step on a database that has its schema
SchemaRerun ==
    /\ db.schema = "full"
    /\ conn'.op = "initialize"
    /\ db' # db

\* C22: when initialize_schema runs on an initialized database it raises nothing, every
\* row there was is still there unchanged (so a default data source keeps a changed
\* priority or is_active), and no identifier type and no data source code is there
\* twice.
C22_InitializeSchemaIdempotent ==
    [][ SchemaRerun =>
          /\ conn'.err = ErrNone
          /\ sources \subseteq sources'
          /\ db.types \subseteq db'.types
          /\ securities \subseteq securities'
          /\ UNCHANGED <<identifiers, prices, factors>>
          /\ \A ds1, ds2 \in sources' :
                ds1.source_code = ds2.source_code => ds1 = ds2 ]_vars

\* C22 witness: initialize_schema has run again after a default source was removed (it
\* is back under a new source_id) while another default source still has the is_active
\* or priority an administrator gave it.
C22_Witness ==
    /\ conn.op = "initialize"
    /\ \E ds \in sources : ds.source_id > Len(DefaultSourceCodes)
    /\ \E ds \in sources :
          /\ ds.source_id <= Len(DefaultSourceCodes)
          /\ (ds.is_active = 0 \/ ds.priority # DefaultPriorities[ds.source_id])

\* the association rows of (t, v) before the step whose valid_from is vf
SameValidFrom(t, v, vf) ==
    { r \in RowsOf(t, v) : r.valid_from = vf }

\* C23 as stated: add_identifier(B, type, value, valid_from = d) on an existing
\* security B succeeds whenever no existing row of (type, value) has valid_from equal
\* to d, whatever other valid_from, NULL included, another security holds it with.
C23_OnlySameValidFrom ==
    [][ (/\ last'.op = "add_identifier"
         /\ ~ForeignKeyViolation(securities, last'.sid)
         /\ SameValidFrom(last'.t, last'.v, last'.vf) = {})
            => last'.err = ErrNone ]_vars

\* C23 amended: the duplicate check considers the existing rows of (type, value) whose
\* valid_from equals the new row's or is NULL. add_identifier(B, type, value,
\* valid_from = d) on an existing security B succeeds and adds its row whenever no
\* existing row of (type, value) has valid_from equal to d and no other security holds
\* (type, value) with a NULL valid_from, even if another security holds it with a
\* different non-NULL valid_from; and it raises DuplicateSecurityError, adding nothing,
\* when rows of (type, value) have valid_from d or NULL and all of them belong to other
\* securities.
C23_SameOrNullValidFrom ==
    [][ last'.op = "add_identifier" =>
          LET sid == last'.sid
              sameOrNull == SameValidFrom(last'.t, last'.v, last'.vf)
                                \cup SameValidFrom(last'.t, last'.v, NULL)
          IN  /\ (/\ ~ForeignKeyViolation(securities, sid)
                  /\ SameValidFrom(last'.t, last'.v, last'.vf) \subseteq
                         SameValidFrom(last'.t, last'.v, NULL)
                  /\ \A r \in sameOrNull : r.security_id = sid)
                    => /\ last'.err = ErrNone
                       /\ BagCardinality(identifiers') = BagCardinality(identifiers) + 1
              /\ (/\ sameOrNull # {}
                  /\ \A r \in sameOrNull : r.security_id # sid)
                    => /\ last'.err = ErrDuplicate
                       /\ identifiers' = identifiers ]_vars

\* C23 witness: add_identifier has added (type, value, valid_from = d) to a security
\* while another security holds (type, value) with another, non-NULL valid_from.
C23_Witness ==
    /\ last.op = "add_identifier"
    /\ last.err = ErrNone
    /\ last.vf # NULL
    /\ \E r \in RowsOf(last.t, last.v) :
          /\ r.security_id # last.sid
          /\ r.valid_from # NULL
          /\ r.valid_from # last.vf

\* the rows of (t, v) whose validity interval contains asof
Candidates(t, v, asof) ==
    { r \in BagToSet(identifiers) : ResolveWhere(r, t, v, asof) }

C25_TieWinnerFixed ==
    /\ \A k \in { KeyOf(p) : p \in prices } : Cardinality(SubqueryResults(prices, k)) <= 1
    /\ \A k \in { KeyOf(fd) : fd \in factors } :
          Cardinality(SubqueryResults(factors, k)) <= 1

\* C29: after a block guarded by transaction() has raised, no row that a
\* SecurityRepository.create or add_identifier call wrote inside the block is in the
\* securities or security_identifiers table.
C29_RepositoryWritesRolledBack ==
    txn.pos = "failed" =>
        \A row \in txn.repo : row \notin securities /\ row \notin BagToSet(identifiers)

====
